---- MODULE Spec2Model ----
(***************************************************************************)
(* A model of the SRT subtitle analysers analise_legendas.py (directory    *)
(* analyser, interval merger) and analise_legenda.py (single-file          *)
(* analyser).  Text is a sequence of one-character strings, a timedelta    *)
(* is an integer number of milliseconds.                                   *)
(***************************************************************************)
EXTENDS Integers, Sequences, FiniteSets, TLC

VARIABLES
    pc,          \* position of the run
    program,     \* which script runs: "analise_legendas" or "analise_legenda"
    timestamp,   \* codec: the timestamp text handed to parse_time
    td,          \* codec: the timedelta parse_time returned
    formatted,   \* codec: the text format_timedelta returned
    text,        \* sanitizer: the line handed to clean_text
    cleaned,     \* sanitizer: clean_text(text)
    recleaned,   \* sanitizer: clean_text(cleaned)
    content,     \* parser: the decoded text of the file
    subtitles,   \* the cue list parse_srt returned
    locals,      \* local values of the statistics function that ran
    report       \* what the statistics function returned (or how it failed)

vars == <<pc, program, timestamp, td, formatted, text, cleaned, recleaned,
          content, subtitles, locals, report>>

None == "None"

(***************************************************************************)
(* Text helpers: Python str and int operations used by the source.         *)
(***************************************************************************)
DigitChars == <<"0", "1", "2", "3", "4", "5", "6", "7", "8", "9">>

IsDigit(c) == \E d \in 1..10 : DigitChars[d] = c

DigitVal(c) == (CHOOSE d \in 1..10 : DigitChars[d] = c) - 1

\* int(s) of a string of decimal digits s[lo..hi]
RECURSIVE IntOfDigits(_, _, _)
IntOfDigits(s, lo, hi) ==
    IF hi < lo THEN 0
    ELSE IntOfDigits(s, lo, hi - 1) * 10 + DigitVal(s[hi])

\* str(n) for n >= 0
RECURSIVE StrOfNat(_)
StrOfNat(n) ==
    IF n < 10 THEN <<DigitChars[n + 1]>>
    ELSE StrOfNat(n \div 10) \o <<DigitChars[(n % 10) + 1]>>

RECURSIVE ZeroPad(_, _)
ZeroPad(s, width) == IF Len(s) >= width THEN s ELSE ZeroPad(<<"0">> \o s, width)

\* f"{n:0<width>d}": the sign counts in the width
FormatD(n, width) ==
    IF n < 0 THEN <<"-">> \o ZeroPad(StrOfNat(-n), width - 1)
    ELSE ZeroPad(StrOfNat(n), width)

\* int(x) of a Python float x = num/den, den > 0: truncation toward zero
TruncDiv(num, den) == IF num >= 0 THEN num \div den ELSE -((-num) \div den)

(***************************************************************************)
(* Timestamp codec.                                                        *)
(***************************************************************************)
\* timedelta(hours=, minutes=, seconds=, milliseconds=) in milliseconds
timedelta(hours, minutes, seconds, milliseconds) ==
    ((hours * 60 + minutes) * 60 + seconds) * 1000 + milliseconds

\* timestamp[:8].split(':') is fields 1-2, 4-5, 7-8; timestamp[9:12] is 10-12
parse_time(ts) ==
    timedelta(IntOfDigits(ts, 1, 2), IntOfDigits(ts, 4, 5),
              IntOfDigits(ts, 7, 8), IntOfDigits(ts, 10, 12))

format_timedelta_minutes_no_mod(d) ==
    LET total_seconds == TruncDiv(d, 1000)
        hours == total_seconds \div 3600
        minutes == total_seconds \div 60
        seconds == total_seconds % 60
        milliseconds == d % 1000
    IN  FormatD(hours, 2) \o <<":">> \o FormatD(minutes, 2) \o <<":">>
        \o FormatD(seconds, 2) \o <<",">> \o FormatD(milliseconds, 3)

\* total_seconds = int(td.total_seconds()); td.microseconds is the
\* non-negative remainder of the normalised timedelta
format_timedelta(d) ==
    LET total_seconds == TruncDiv(d, 1000)
        hours == total_seconds \div 3600
        minutes == (total_seconds % 3600) \div 60
        seconds == total_seconds % 60
        milliseconds == d % 1000
    IN  FormatD(hours, 2) \o <<":">> \o FormatD(minutes, 2) \o <<":">>
        \o FormatD(seconds, 2) \o <<",">> \o FormatD(milliseconds, 3)

\* The digits the timestamp inputs are written with
TimestampDigits == {"0", "5", "9"}

Timestamps ==
    { <<h1, h2, ":", m1, m2, ":", s1, s2, ",", f1, f2, f3>> :
        h1 \in TimestampDigits, h2 \in TimestampDigits,
        m1 \in TimestampDigits, m2 \in TimestampDigits,
        s1 \in TimestampDigits, s2 \in TimestampDigits,
        f1 \in TimestampDigits, f2 \in TimestampDigits, f3 \in TimestampDigits }

IdleCodec == timestamp = None /\ td = None /\ formatted = None
IdleSanitizer == text = None /\ cleaned = None /\ recleaned = None
IdleAnalysis ==
    /\ program = None /\ content = None /\ subtitles = None
    /\ locals = None /\ report = None

InitCodec ==
    /\ pc = "timestamp"
    /\ timestamp \in Timestamps
    /\ td = None /\ formatted = None
    /\ IdleSanitizer /\ IdleAnalysis

ParseTime ==
    /\ pc = "timestamp"
    /\ td' = parse_time(timestamp)
    /\ pc' = "decoded"
    /\ UNCHANGED <<program, timestamp, formatted, text, cleaned, recleaned,
                   content, subtitles, locals, report>>

FormatTimedelta ==
    /\ pc = "decoded"
    /\ formatted' = format_timedelta(td)
    /\ pc' = "encoded"
    /\ UNCHANGED <<program, timestamp, td, text, cleaned, recleaned,
                   content, subtitles, locals, report>>

NextCodec == ParseTime \/ FormatTimedelta

SpecCodec == InitCodec /\ [][NextCodec]_vars

\* C1 (as stated): for every s of the form HH:MM:SS,mmm, minutes or seconds
\* above 59 included, format_timedelta(parse_time(s)) returns exactly s.
C1_RoundTripEveryField == pc = "encoded" => formatted = timestamp

\* C1 (amended): for every s of the form HH:MM:SS,mmm whose minutes and
\* seconds fields are at most 59, format_timedelta(parse_time(s)) returns
\* exactly s.
C1_RoundTripNormalised ==
    (/\ pc = "encoded"
     /\ IntOfDigits(timestamp, 4, 5) <= 59
     /\ IntOfDigits(timestamp, 7, 8) <= 59) => formatted = timestamp

C1_Witness ==
    /\ pc = "encoded"
    /\ IntOfDigits(timestamp, 1, 2) = 95
    /\ IntOfDigits(timestamp, 4, 5) = 59
    /\ IntOfDigits(timestamp, 7, 8) = 50
    /\ IntOfDigits(timestamp, 10, 12) = 905
    /\ formatted = timestamp

(***************************************************************************)
(* Text sanitizer.                                                         *)
(***************************************************************************)
Letters ==
    {"a", "b", "c", "d", "e", "f", "g", "h", "i", "j", "k", "l", "m",
     "n", "o", "p", "q", "r", "s", "t", "u", "v", "w", "x", "y", "z",
     "A", "B", "C", "D", "E", "F", "G", "H", "I", "J", "K", "L", "M",
     "N", "O", "P", "Q", "R", "S", "T", "U", "V", "W", "X", "Y", "Z"}

\* \w of the re module, over the characters the model writes text with
IsWordChar(c) == c \in Letters \/ IsDigit(c) \/ c = "_"

Whitespace == {" ", "\t", "\n", "\r", "\f"}

MinOf(S) == CHOOSE x \in S : \A y \in S : x <= y
MaxOf(S) == CHOOSE x \in S : \A y \in S : x >= y

\* str.strip()
Strip(s) ==
    LET keep == {i \in 1..Len(s) : s[i] \notin Whitespace}
    IN  IF keep = {} THEN <<>> ELSE SubSeq(s, MinOf(keep), MaxOf(keep))

\* The positions j > i closing a match of open.*?close that starts at i
\* ('.' does not match a line break)
Closers(s, i, close) ==
    {j \in (i + 1)..Len(s) :
        s[j] = close /\ \A k \in (i + 1)..(j - 1) : s[k] # "\n"}

\* The first position at or after from where open.*?close matches (0 if none)
FirstDelimited(s, from, open, close) ==
    LET starts == {i \in from..Len(s) : s[i] = open /\ Closers(s, i, close) # {}}
    IN  IF starts = {} THEN 0 ELSE MinOf(starts)

\* re.sub with count=1: only the first match is removed
SubDelimitedFirstOnly(s, from, open, close) ==
    LET i == FirstDelimited(s, from, open, close)
    IN  IF i = 0 THEN SubSeq(s, from, Len(s))
        ELSE SubSeq(s, from, i - 1)
             \o SubSeq(s, MinOf(Closers(s, i, close)) + 1, Len(s))

\* re.sub(open + '.*?' + close, '', s[from:]): every leftmost shortest
\* match is removed, the scan resuming after its closing delimiter
RECURSIVE SubDelimited(_, _, _, _)
SubDelimited(s, from, open, close) ==
    LET i == FirstDelimited(s, from, open, close)
    IN  IF i = 0 THEN SubSeq(s, from, Len(s))
        ELSE SubSeq(s, from, i - 1)
             \o SubDelimited(s, MinOf(Closers(s, i, close)) + 1, open, close)

\* The last position of the run of letters that starts at i (i - 1 if none)
LetterRunEnd(s, i) ==
    LET others == {j \in i..Len(s) : s[j] \notin Letters}
    IN  IF others = {} THEN Len(s) ELSE MinOf(others) - 1

\* Whether \\[a-zA-Z]+\b matches at i: the letters are taken greedily and
\* \b holds after them only at the end of the text or before a non-word
\* character; a shorter run of letters never ends at a boundary
EscapeAt(s, i) ==
    /\ s[i] = "\\"
    /\ LetterRunEnd(s, i + 1) > i
    /\ \/ LetterRunEnd(s, i + 1) = Len(s)
       \/ ~IsWordChar(s[LetterRunEnd(s, i + 1) + 1])

\* re.sub(r'\\[a-zA-Z]+\b', '', s[from:])
RECURSIVE SubEscapes(_, _)
SubEscapes(s, from) ==
    LET starts == {i \in from..Len(s) : EscapeAt(s, i)}
    IN  IF starts = {} THEN SubSeq(s, from, Len(s))
        ELSE SubSeq(s, from, MinOf(starts) - 1)
             \o SubEscapes(s, LetterRunEnd(s, MinOf(starts) + 1) + 1)

clean_text(line) ==
    LET t1 == SubDelimited(line, 1, "<", ">")
        t2 == SubDelimited(t1, 1, "{", "}")
        t3 == SubEscapes(t2, 1)
    IN  Strip(t3)

\* The characters the sanitizer's input lines are written with
TextChars == {"<", ">", "{", "}", "\\", "a", "1", " ", "_", "."}

MaxLineLen == 5

InitSanitizer ==
    /\ pc = "line"
    /\ \E n \in 0..MaxLineLen : text \in [1..n -> TextChars]
    /\ cleaned = None /\ recleaned = None
    /\ IdleCodec /\ IdleAnalysis

CleanText ==
    /\ pc = "line"
    /\ cleaned' = clean_text(text)
    /\ pc' = "cleaned"
    /\ UNCHANGED <<program, timestamp, td, formatted, text, recleaned,
                   content, subtitles, locals, report>>

CleanTextAgain ==
    /\ pc = "cleaned"
    /\ recleaned' = clean_text(cleaned)
    /\ pc' = "recleaned"
    /\ UNCHANGED <<program, timestamp, td, formatted, text, cleaned,
                   content, subtitles, locals, report>>

NextSanitizer == CleanText \/ CleanTextAgain

SpecSanitizer == InitSanitizer /\ [][NextSanitizer]_vars

\* C8: clean_text is idempotent: for every input line s, nested, unmatched
\* or interleaved delimiters and backslash sequences included,
\* clean_text(clean_text(s)) = clean_text(s).
C8_CleanIdempotent == pc = "recleaned" => recleaned = cleaned

\* A line whose delimiters were only partly removed: the cleaned text still
\* holds a delimiter or a backslash and has been cleaned a second time.
C8_Witness ==
    /\ pc = "recleaned"
    /\ cleaned # text
    /\ \E i \in 1..Len(cleaned) : cleaned[i] \in {"<", ">", "{", "}", "\\"}
    /\ \E i \in 1..Len(text) : \E j \in (i + 1)..Len(text) :
           text[i] \in {"<", "{"} /\ text[j] \in {">", "}"}

(***************************************************************************)
(* Sequence helpers: Python list operations used by the statistics code.   *)
(***************************************************************************)
Min2(a, b) == IF a <= b THEN a ELSE b
Max2(a, b) == IF a >= b THEN a ELSE b

\* [F(x) for x in s]
MapSeq(s, F(_)) == [i \in 1..Len(s) |-> F(s[i])]

\* sum(s) of a list of numbers
RECURSIVE SumSeq(_, _)
SumSeq(s, i) == IF i > Len(s) THEN 0 ELSE s[i] + SumSeq(s, i + 1)

\* sum(F(x) for x in s)
SumOver(s, F(_)) == SumSeq(MapSeq(s, F), 1)

\* [x for sub in s for x in sub]
RECURSIVE Flatten(_, _)
Flatten(s, i) == IF i > Len(s) THEN <<>> ELSE s[i] \o Flatten(s, i + 1)

\* len(line.split()): the number of maximal runs of non-whitespace
CountWords(line) ==
    Cardinality({i \in 1..Len(line) :
        /\ line[i] \notin Whitespace
        /\ (i = 1 \/ line[i - 1] \in Whitespace)})

\* A float kept exact: num / den
Ratio(num, den) == [num |-> num, den |-> den]

\* The rate with the guard on the display time left out
ReadingRateUnguarded(n, display_ms) == Ratio(n * 1000, display_ms)

\* n / display.total_seconds() if display.total_seconds() > 0 else 0
ReadingRate(n, display_ms) ==
    IF display_ms > 0 THEN Ratio(n * 1000, display_ms) ELSE Ratio(0, 1)

Programs == {"analise_legendas", "analise_legenda"}

(***************************************************************************)
(* Interval merger (analise_legendas.py).                                  *)
(***************************************************************************)
\* list.sort(key=lambda x: x[0]) is stable: x goes after every element
\* whose start is not greater
RECURSIVE InsertByStart(_, _)
InsertByStart(sorted, x) ==
    IF sorted = <<>> THEN <<x>>
    ELSE IF sorted[Len(sorted)][1] <= x[1] THEN Append(sorted, x)
         ELSE Append(InsertByStart(SubSeq(sorted, 1, Len(sorted) - 1), x),
                     sorted[Len(sorted)])

RECURSIVE SortFrom(_, _, _)
SortFrom(intervals, i, sorted) ==
    IF i > Len(intervals) THEN sorted
    ELSE SortFrom(intervals, i + 1, InsertByStart(sorted, intervals[i]))

\* The sort left out: the intervals stay in file order
SortByStartNotSorting(intervals) == intervals

SortByStart(intervals) == SortFrom(intervals, 1, <<>>)

\* The loop with current_end = end for current_end = max(current_end, end)
RECURSIVE MergeLoopNoMax(_, _, _, _, _)
MergeLoopNoMax(intervals, i, current_start, current_end, merged_intervals) ==
    IF i > Len(intervals)
    THEN Append(merged_intervals, <<current_start, current_end>>)
    ELSE LET start == intervals[i][1]
             end == intervals[i][2]
         IN  IF start <= current_end
             THEN MergeLoopNoMax(intervals, i + 1, current_start,
                                 end, merged_intervals)
             ELSE MergeLoopNoMax(intervals, i + 1, start, end,
                                 Append(merged_intervals, <<current_start, current_end>>))

\* The for loop of _merge_intervals with the append that follows it
RECURSIVE MergeLoop(_, _, _, _, _)
MergeLoop(intervals, i, current_start, current_end, merged_intervals) ==
    IF i > Len(intervals)
    THEN Append(merged_intervals, <<current_start, current_end>>)
    ELSE LET start == intervals[i][1]
             end == intervals[i][2]
         IN  IF start <= current_end
             THEN MergeLoop(intervals, i + 1, current_start,
                            Max2(current_end, end), merged_intervals)
             ELSE MergeLoop(intervals, i + 1, start, end,
                            Append(merged_intervals, <<current_start, current_end>>))

_merge_intervals(intervals) ==
    IF intervals = <<>> THEN 0
    ELSE LET sorted == SortByStart(intervals)
             merged_intervals ==
                 MergeLoop(sorted, 2, sorted[1][1], sorted[1][2], <<>>)
         IN  SumOver(merged_intervals, LAMBDA iv : iv[2] - iv[1])

(***************************************************************************)
(* A cue is the tuple parse_srt appends:                                   *)
(* (start_time, end_time, text_lines, line_number, encoding).              *)
(***************************************************************************)
Cue(start, end, text_lines, line_number) ==
    [start |-> start, end |-> end, text_lines |-> text_lines,
     line_number |-> line_number, encoding |-> "utf-8"]

MinSeq(s) == MinOf({s[i] : i \in 1..Len(s)})
MaxSeq(s) == MaxOf({s[i] : i \in 1..Len(s)})

(***************************************************************************)
(* analise_legendas.py: analyze_subtitle_file, after its call of parse_srt *)
(***************************************************************************)
\* The cue list as it would be left if the merger sorted the cue list itself
\* (intervals an alias of subtitles): the cues in a stable order of start
CuesAfterMergeSortedInPlace(subs) ==
    LET keyed == SortByStart([i \in 1..Len(subs) |-> <<subs[i].start, i>>])
    IN  [k \in 1..Len(subs) |-> subs[keyed[k][2]]]

\* The cue list after _merge_intervals(intervals) returned: intervals is a
\* list of its own, built from the cues by the comprehension of line 129,
\* so the in-place sort of line 51 reorders that list and not subtitles
CuesAfterMerge(subs) == subs

\* A scan that also counts cues that only touch (>= for >)
RECURSIVE CountOverlapsTouching(_, _)
CountOverlapsTouching(subs, i) ==
    IF i > Len(subs) - 1 THEN 0
    ELSE (IF subs[i].end >= subs[i + 1].start THEN 1 ELSE 0)
         + CountOverlapsTouching(subs, i + 1)

\* for i in range(num_lines - 1): if subtitles[i][1] > subtitles[i + 1][0]
RECURSIVE CountOverlaps(_, _)
CountOverlaps(subs, i) ==
    IF i > Len(subs) - 1 THEN 0
    ELSE (IF subs[i].end > subs[i + 1].start THEN 1 ELSE 0)
         + CountOverlaps(subs, i + 1)

analyze_subtitle_file(subs) ==
    IF subs = <<>>
    THEN [locals |-> [kind |-> "returned early"], report |-> [kind |-> "None"],
          subtitles |-> subs]
    ELSE
    LET num_lines == Len(subs)
        start_time == subs[1].start
        end_time == subs[num_lines].end
        total_duration == end_time - start_time
        intervals == MapSeq(subs, LAMBDA c : <<c.start, c.end>>)
        real_display_time == _merge_intervals(intervals)
        total_silence == total_duration - real_display_time
        durations == MapSeq(subs, LAMBDA c : c.end - c.start)
        line_counts == MapSeq(subs, LAMBDA c : Len(c.text_lines))
        all_lines == Flatten(MapSeq(subs, LAMBDA c : c.text_lines), 1)
        total_words == SumOver(all_lines, CountWords)
        total_chars == SumOver(all_lines, Len)
        single_lines == Cardinality({i \in 1..num_lines : line_counts[i] = 1})
        double_lines == Cardinality({i \in 1..num_lines : line_counts[i] = 2})
        triple_plus_lines == Cardinality({i \in 1..num_lines : line_counts[i] >= 3})
        sum_durations == SumSeq(durations, 1)
        overlaps == CountOverlaps(CuesAfterMerge(subs), 1)
        words_per_second == ReadingRate(total_words, real_display_time)
        duration_ms == IF total_duration > 0 THEN total_duration ELSE 1000
    IN  [locals |->
            [kind |-> "ran",
             total_duration |-> total_duration,
             intervals |-> SortByStart(intervals),
             real_display_time |-> real_display_time,
             total_silence |-> total_silence],
         subtitles |-> CuesAfterMerge(subs),
         report |->
            [kind |-> "dict",
             num_lines |-> num_lines,
             duration |-> format_timedelta(total_duration),
             display_time |-> format_timedelta(real_display_time),
             silence_time |-> format_timedelta(total_silence),
             display_percentage |-> Ratio(real_display_time * 100, duration_ms),
             total_words |-> total_words,
             total_chars |-> total_chars,
             words_per_line |-> Ratio(total_words, num_lines),
             chars_per_line |-> Ratio(total_chars, num_lines),
             words_per_second |-> words_per_second,
             sum_durations |-> sum_durations,
             file_min_duration |-> MinSeq(durations),
             file_max_duration |-> MaxSeq(durations),
             avg_duration |-> Ratio(sum_durations, num_lines),
             single_lines |-> single_lines,
             double_lines |-> double_lines,
             triple_plus_lines |-> triple_plus_lines,
             overlaps |-> overlaps,
             encoding |-> subs[1].encoding]]

(***************************************************************************)
(* analise_legenda.py: calculate_statistics                                *)
(***************************************************************************)
\* len(clean_text(line)) > 42
LongLineChars == 42

\* timedelta(seconds=0.9), in milliseconds
ShortDurationMs == 900

\* The filter left out: every line written counts
NonEmptyWhenCleanKeepingAll(lines) == lines

\* [line for line in lines if clean_text(line)]
NonEmptyWhenClean(lines) == SelectSeq(lines, LAMBDA l : clean_text(l) # <<>>)

\* The scan with overlap_end = subtitles[i][1], the min left out
RECURSIVE OverlapScanNoMin(_, _)
OverlapScanNoMin(subs, i) ==
    IF i > Len(subs) - 1 THEN <<>>
    ELSE IF subs[i].end > subs[i + 1].start
         THEN <<[first |-> <<subs[i], subs[i].start, subs[i].end>>,
                 second |-> <<subs[i + 1], subs[i + 1].start, subs[i + 1].end>>,
                 overlap_duration |-> subs[i].end - subs[i + 1].start]>>
              \o OverlapScanNoMin(subs, i + 1)
         ELSE OverlapScanNoMin(subs, i + 1)

\* for i in range(len(subtitles) - 1): ... overlaps.append(...)
RECURSIVE OverlapScan(_, _)
OverlapScan(subs, i) ==
    IF i > Len(subs) - 1 THEN <<>>
    ELSE IF subs[i].end > subs[i + 1].start
         THEN LET overlap_start == subs[i + 1].start
                  overlap_end == Min2(subs[i].end, subs[i + 1].end)
              IN  <<[first |-> <<subs[i], subs[i].start, subs[i].end>>,
                     second |-> <<subs[i + 1], subs[i + 1].start, subs[i + 1].end>>,
                     overlap_duration |-> overlap_end - overlap_start]>>
                  \o OverlapScan(subs, i + 1)
         ELSE OverlapScan(subs, i + 1)

\* any(len(clean_text(line)) > 42 for line in text_lines)
HasLongLine(c) ==
    \E i \in 1..Len(c.text_lines) : Len(clean_text(c.text_lines[i])) > LongLineChars

\* The loop that fills lines_with_more_than_42_chars and line_contents
LongLines(subs) ==
    LET flagged == SelectSeq(subs, HasLongLine)
    IN  [numbers |-> {flagged[i].line_number : i \in 1..Len(flagged)},
         line_contents |->
            MapSeq(flagged, LAMBDA c :
                [line_num |-> c.line_number,
                 text_lines |-> SelectSeq(MapSeq(c.text_lines, clean_text),
                                          LAMBDA l : l # <<>>)])]

\* The line numbers of the cues with a number of non-empty lines in the bucket
Bucket(subs, InBucket(_)) ==
    MapSeq(SelectSeq(subs, LAMBDA c : InBucket(Len(NonEmptyWhenClean(c.text_lines)))),
           LAMBDA c : c.line_number)

calculate_statistics(subs) ==
    LET num_lines == Len(subs)
        start_time == IF subs # <<>> THEN subs[1].start ELSE 0
        total_duration == IF subs # <<>> THEN subs[num_lines].end ELSE 0
        durations == MapSeq(subs, LAMBDA c : c.end - c.start)
        total_display_time == SumSeq(durations, 1)
        total_time_without_subtitles == total_duration - total_display_time
        raw_lines == Flatten(MapSeq(subs, LAMBDA c : c.text_lines), 1)
        total_words == SumOver(raw_lines, LAMBDA l : CountWords(clean_text(l)))
        total_characters == SumOver(raw_lines, LAMBDA l : Len(clean_text(l)))
        all_lines ==
            Flatten(MapSeq(subs, LAMBDA c :
                MapSeq(c.text_lines, LAMBDA l : <<c.line_number, l>>)), 1)
        PerLine(n) == IF num_lines > 0 THEN Ratio(n, num_lines) ELSE Ratio(0, 1)
        Percentage(t) ==
            IF total_duration > 0 THEN Ratio(t * 100, total_duration) ELSE Ratio(0, 1)
    IN  IF all_lines = <<>>
        THEN \* max() of an empty sequence, line 113
             [locals |-> [kind |-> "raised"], report |-> [kind |-> "ValueError"]]
        ELSE
        LET longest_length ==
                MaxSeq(MapSeq(all_lines, LAMBDA nl : Len(clean_text(nl[2]))))
            longest_lines ==
                SelectSeq(all_lines, LAMBDA nl : Len(clean_text(nl[2])) = longest_length)
            long == LongLines(subs)
        IN  [locals |-> [kind |-> "ran", longest_length |-> longest_length],
             report |->
                [kind |-> "dict",
                 num_lines |-> num_lines,
                 start_time |-> start_time,
                 total_duration |-> total_duration,
                 total_display_time |-> total_display_time,
                 total_time_without_subtitles |-> total_time_without_subtitles,
                 display_percentage |-> Percentage(total_display_time),
                 without_subtitles_percentage |->
                     Percentage(total_time_without_subtitles),
                 total_words |-> total_words,
                 total_characters |-> total_characters,
                 avg_words_per_line |-> PerLine(total_words),
                 avg_chars_per_line |-> PerLine(total_characters),
                 avg_duration |-> PerLine(total_display_time),
                 min_duration |-> MinSeq(durations),
                 max_duration |-> MaxSeq(durations),
                 reading_rate_words |-> ReadingRate(total_words, total_display_time),
                 reading_rate_chars |-> ReadingRate(total_characters, total_display_time),
                 longest_line |-> longest_lines[1][2],
                 lines_with_more_than_42_chars |-> long,
                 overlaps |-> OverlapScan(subs, 1),
                 short_duration_lines |->
                     MapSeq(SelectSeq(subs, LAMBDA c : c.end - c.start < ShortDurationMs),
                            LAMBDA c : [number |-> c.line_number, start |-> c.start,
                                        end |-> c.end, duration |-> c.end - c.start,
                                        text |-> c.text_lines]),
                 single_lines |-> Bucket(subs, LAMBDA n : n = 1),
                 double_lines |-> Bucket(subs, LAMBDA n : n = 2),
                 triple_lines |-> Bucket(subs, LAMBDA n : n = 3),
                 quadruple_lines |-> Bucket(subs, LAMBDA n : n >= 4),
                 longest_lines |-> longest_lines,
                 encoding |-> subs[1].encoding]]

(***************************************************************************)
(* The statistics run: the cue list parse_srt returned is analysed by the  *)
(* script that parsed it.                                                  *)
(***************************************************************************)
MaxCues == 3
MaxTextCues == 2

\* Cue times, in milliseconds
TimePoints == {0, 500, 1000, 1500}

LineOfLength(n) == [i \in 1..n |-> "a"]
ShortLine == <<"H", "i", " ", "y", "o", "u">>
TagOnlyLine == <<"<", "i", ">">>

\* The text lines of a block, as written in the file
RawTextChoices ==
    { <<LineOfLength(50)>>,
      <<LineOfLength(LongLineChars)>>,
      <<TagOnlyLine \o LineOfLength(LongLineChars)>>,
      <<ShortLine, LineOfLength(LongLineChars + 1)>>,
      <<ShortLine>>,
      <<TagOnlyLine>>,
      <<ShortLine, TagOnlyLine>>,
      <<ShortLine, ShortLine>>,
      <<ShortLine, TagOnlyLine, ShortLine, ShortLine>>,
      <<ShortLine, ShortLine, ShortLine, ShortLine>>,
      <<ShortLine, ShortLine, ShortLine, ShortLine, ShortLine>> }

\* analise_legendas.parse_srt keeps the cleaned non-empty lines,
\* analise_legenda.parse_srt the lines as written
TextChoices(prog) ==
    IF prog = "analise_legendas"
    THEN {SelectSeq(MapSeq(t, clean_text), LAMBDA l : l # <<>>) : t \in RawTextChoices}
    ELSE RawTextChoices

LineNumbers == {1, 2}

\* A cue list that differs from others in its times: any start and end, in
\* any order
IsTimedCueList(subs) ==
    \E n \in 0..MaxCues : \E f \in [1..n -> TimePoints \X TimePoints] :
        subs = [i \in 1..n |-> Cue(f[i][1], f[i][2], <<ShortLine>>, i)]

\* A cue list that differs from others in its text and declared numbers: one
\* cue a second
IsTextCueList(subs, prog) ==
    \E n \in 1..MaxTextCues : \E f \in [1..n -> TextChoices(prog) \X LineNumbers] :
        subs = [i \in 1..n |-> Cue((i - 1) * 1000, i * 1000, f[i][1], f[i][2])]

Pending == [kind |-> "pending"]

InitStatistics ==
    /\ pc = "parsed"
    /\ program \in Programs
    /\ content = None
    /\ IsTimedCueList(subtitles) \/ IsTextCueList(subtitles, program)
    /\ locals = Pending /\ report = Pending
    /\ IdleCodec /\ IdleSanitizer

\* analyze_subtitle_file from its line 118 on
AnalyzeSubtitleFile ==
    /\ pc = "parsed" /\ program = "analise_legendas"
    /\ LET r == analyze_subtitle_file(subtitles)
       IN  locals' = r.locals /\ report' = r.report /\ subtitles' = r.subtitles
    /\ pc' = "done"
    /\ UNCHANGED <<program, timestamp, td, formatted, text, cleaned, recleaned,
                   content>>

\* main of analise_legenda.py: stats = calculate_statistics(subtitles)
CalculateStatistics ==
    /\ pc = "parsed" /\ program = "analise_legenda"
    /\ LET r == calculate_statistics(subtitles)
       IN  locals' = r.locals /\ report' = r.report
    /\ pc' = "done"
    /\ UNCHANGED <<program, timestamp, td, formatted, text, cleaned, recleaned,
                   content, subtitles>>

NextStatistics == AnalyzeSubtitleFile \/ CalculateStatistics

SpecStatistics == InitStatistics /\ [][NextStatistics]_vars

(***************************************************************************)
(* Properties of the statistics run.                                       *)
(***************************************************************************)
\* The run of script prog is over and returned its dictionary
Reported(prog) == pc = "done" /\ program = prog /\ report.kind = "dict"

WellFormed(subs) == \A i \in 1..Len(subs) : subs[i].start <= subs[i].end

\* The ranges [a.start, a.end) and [b.start, b.end) share some time
RangesOverlap(a, b) == Max2(a.start, b.start) < Min2(a.end, b.end)

SomeOverlap(subs) ==
    \E i \in 1..Len(subs) : \E j \in (i + 1)..Len(subs) : RangesOverlap(subs[i], subs[j])

SumOfDurations(subs) == SumOver(subs, LAMBDA c : c.end - c.start)

\* The measure of the union of the ranges [start, end): the pieces between
\* consecutive end points that lie inside some cue's range
RECURSIVE MeasureFrom(_, _, _)
MeasureFrom(subs, points, p) ==
    LET later == {q \in points : q > p}
    IN  IF later = {} THEN 0
        ELSE LET q == MinOf(later)
             IN  (IF \E i \in 1..Len(subs) : subs[i].start <= p /\ q <= subs[i].end
                  THEN q - p ELSE 0)
                 + MeasureFrom(subs, points, q)

UnionMeasure(subs) ==
    LET points == {subs[i].start : i \in 1..Len(subs)}
                  \cup {subs[i].end : i \in 1..Len(subs)}
    IN  IF points = {} THEN 0 ELSE MeasureFrom(subs, points, MinOf(points))

AdjacentClear(subs) == \A i \in 1..(Len(subs) - 1) : subs[i].end <= subs[i + 1].start

\* C2 (as stated): for every cue sequence, cues that end before they start
\* included, the true display time is at most the sum of the cue durations,
\* and equal to it exactly when no two cues' ranges overlap.
C2_DisplayAtMostSumAnyCues ==
    Reported("analise_legendas") =>
        /\ locals.real_display_time <= SumOfDurations(subtitles)
        /\ (locals.real_display_time = SumOfDurations(subtitles))
               <=> ~SomeOverlap(subtitles)

\* C2 (amended): for every cue sequence in which every cue has end >= start,
\* the true display time is at most the sum of the cue durations, and equal
\* to it exactly when no two cues' ranges overlap.
C2_DisplayAtMostSum ==
    (Reported("analise_legendas") /\ WellFormed(subtitles)) =>
        /\ locals.real_display_time <= SumOfDurations(subtitles)
        /\ (locals.real_display_time = SumOfDurations(subtitles))
               <=> ~SomeOverlap(subtitles)

\* Three well-formed cues, later ones starting earlier in the file, two of
\* them overlapping: the merged time is strictly below the sum.
C2_Witness ==
    /\ Reported("analise_legendas") /\ WellFormed(subtitles)
    /\ Len(subtitles) = 3
    /\ subtitles[2].start < subtitles[1].start
    /\ SomeOverlap(subtitles)
    /\ locals.real_display_time < SumOfDurations(subtitles)

NoOverlapReported ==
    IF program = "analise_legendas" THEN report.overlaps = 0
    ELSE report.overlaps = <<>>

\* C4: the overlap list (or count) of a report is empty (zero) if and only
\* if every pair of file-adjacent cues has cue[i].end <= cue[i+1].start; an
\* overlap between non-adjacent cues alone produces no entry.
C4_OverlapsEmptyIffAdjacentClear ==
    (pc = "done" /\ report.kind = "dict") =>
        (NoOverlapReported <=> AdjacentClear(subtitles))

\* The first and third cue overlap, no adjacent pair does, nothing is listed.
C4_Witness ==
    /\ pc = "done" /\ report.kind = "dict"
    /\ Len(subtitles) = 3
    /\ RangesOverlap(subtitles[1], subtitles[3])
    /\ AdjacentClear(subtitles)
    /\ NoOverlapReported

\* C5: analysing an empty cue sequence does not fail and returns a report
\* whose numeric fields are all zero and whose list fields are all empty.
C5_EmptyAnalysisAllZero ==
    (pc = "done" /\ subtitles = <<>>) =>
        /\ report.kind = "dict"
        /\ report.num_lines = 0
        /\ report.total_words = 0
        /\ NoOverlapReported

\* The indices i with cue[i].end > cue[i+1].start
OverlappingIndices(subs) ==
    {i \in 1..(Len(subs) - 1) : subs[i].end > subs[i + 1].start}

\* C6: the overlap list holds exactly one record, in file order, for each
\* index i with cue[i].end > cue[i+1].start, and the record's duration is
\* min(cue[i].end, cue[i+1].end) - cue[i+1].start.
C6_OverlapRecords ==
    Reported("analise_legenda") =>
        LET idx == OverlappingIndices(subtitles)
        IN  /\ Len(report.overlaps) = Cardinality(idx)
            /\ \A i \in idx :
                 LET k == Cardinality({j \in idx : j <= i})
                     rec == report.overlaps[k]
                 IN  /\ rec.first = <<subtitles[i], subtitles[i].start, subtitles[i].end>>
                     /\ rec.second = <<subtitles[i + 1], subtitles[i + 1].start,
                                       subtitles[i + 1].end>>
                     /\ rec.overlap_duration =
                            Min2(subtitles[i].end, subtitles[i + 1].end)
                            - subtitles[i + 1].start

\* Three cues of which only the last two overlap, the third ending inside
\* the second: one record, for the second pair, one second long.
C6_Witness ==
    /\ Reported("analise_legenda")
    /\ Len(subtitles) = 3
    /\ OverlappingIndices(subtitles) = {2}
    /\ subtitles[3].end < subtitles[2].end
    /\ Len(report.overlaps) = 1
    /\ report.overlaps[1].overlap_duration = 500
    /\ report.overlaps[1].second[1] = subtitles[3]

\* The declared numbers of the cues with a cleaned line above the threshold
FlaggedNumbers(subs) ==
    {subs[i].line_number : i \in {j \in 1..Len(subs) :
        \E l \in 1..Len(subs[j].text_lines) :
            Len(clean_text(subs[j].text_lines[l])) > LongLineChars}}

\* C9: the long-line list has exactly one entry for each distinct sequence
\* number carried by a cue with a cleaned line longer than 42 characters and
\* no other entry; two flagged cues sharing a number give a single entry.
C9_OneEntryPerFlaggedNumber ==
    Reported("analise_legenda") =>
        LET long == report.lines_with_more_than_42_chars
            flagged == FlaggedNumbers(subtitles)
        IN  /\ long.numbers = flagged
            /\ \A n \in flagged :
                 Cardinality({k \in 1..Len(long.line_contents) :
                                 long.line_contents[k].line_num = n}) = 1
            /\ \A k \in 1..Len(long.line_contents) :
                 long.line_contents[k].line_num \in flagged

\* The value a reader of [-]H:MM:SS,mmm text gets by reading each field as
\* an integer and adding them up, as timedelta(hours=, minutes=, ...) does
SignedInt(s) ==
    IF s # <<>> /\ s[1] = "-" THEN -IntOfDigits(s, 2, Len(s))
    ELSE IntOfDigits(s, 1, Len(s))

ReadTimestamp(ts) ==
    LET colons == {i \in 1..Len(ts) : ts[i] = ":"}
        c1 == MinOf(colons)
        c2 == MaxOf(colons)
        comma == CHOOSE i \in 1..Len(ts) : ts[i] = ","
    IN  timedelta(SignedInt(SubSeq(ts, 1, c1 - 1)),
                  SignedInt(SubSeq(ts, c1 + 1, c2 - 1)),
                  SignedInt(SubSeq(ts, c2 + 1, comma - 1)),
                  SignedInt(SubSeq(ts, comma + 1, Len(ts))))

\* C10: for every non-empty cue sequence the reported silence time is
\* (last_cue.end - first_cue.start) minus the true display time, the
\* negative value itself when that difference is negative.
C10_SilenceReportedAsIs ==
    Reported("analise_legendas") =>
        ReadTimestamp(report.silence_time) =
            (subtitles[Len(subtitles)].end - subtitles[1].start)
            - locals.real_display_time

(***************************************************************************)
(* Block parser: parse_srt of both scripts, on the decoded file text.      *)
(***************************************************************************)
\* s[i:].startswith(sep)
StartsAt(s, i, sep) ==
    /\ i + Len(sep) - 1 <= Len(s)
    /\ \A k \in 1..Len(sep) : s[i + k - 1] = sep[k]

\* s.split(sep): the pieces between the occurrences of sep, found left to
\* right without overlap
RECURSIVE SplitFrom(_, _, _)
SplitFrom(s, from, sep) ==
    LET seps == {i \in from..Len(s) : StartsAt(s, i, sep)}
    IN  IF seps = {} THEN <<SubSeq(s, from, Len(s))>>
        ELSE <<SubSeq(s, from, MinOf(seps) - 1)>>
             \o SplitFrom(s, MinOf(seps) + Len(sep), sep)

Split(s, sep) == SplitFrom(s, 1, sep)

\* re.match(r"(\d{2}:\d{2}:\d{2},\d{3}) --> (\d{2}:\d{2}:\d{2},\d{3})", line):
\* anchored at the start of the line only
TimingShape ==
    <<"d", "d", ":", "d", "d", ":", "d", "d", ",", "d", "d", "d",
      " ", "-", "-", ">", " ",
      "d", "d", ":", "d", "d", ":", "d", "d", ",", "d", "d", "d">>

TimeMatch(line) ==
    /\ Len(line) >= Len(TimingShape)
    /\ \A k \in 1..Len(TimingShape) :
         IF TimingShape[k] = "d" THEN IsDigit(line[k]) ELSE line[k] = TimingShape[k]

\* Whether int(s) succeeds: surrounding whitespace and a sign are accepted
IsIntLiteral(s) ==
    LET t == Strip(s)
        digits == IF t # <<>> /\ t[1] \in {"+", "-"} THEN Tail(t) ELSE t
    IN  digits # <<>> /\ \A k \in 1..Len(digits) : IsDigit(digits[k])

IntLiteral(s) ==
    LET t == Strip(s)
    IN  IF t[1] = "-" THEN -IntOfDigits(t, 2, Len(t))
        ELSE IF t[1] = "+" THEN IntOfDigits(t, 2, Len(t))
        ELSE IntOfDigits(t, 1, Len(t))

\* content.strip().split('\n\n'), each block split on '\n'
BlocksOf(text_) == MapSeq(Split(Strip(text_), <<"\n", "\n">>),
                          LAMBDA block : Split(block, <<"\n">>))

\* The fewest lines a block needs: len(lines) < 2 / len(lines) < 3 is skipped
MinBlockLines(prog) == IF prog = "analise_legendas" THEN 2 ELSE 3

\* The blocks that reach subtitles.append
TimedBlocks(text_, prog) ==
    SelectSeq(BlocksOf(text_),
              LAMBDA lines : Len(lines) >= MinBlockLines(prog) /\ TimeMatch(lines[2]))

StartOf(lines) == parse_time(SubSeq(lines[2], 1, 12))
EndOf(lines) == parse_time(SubSeq(lines[2], 18, 29))

\* analise_legendas.parse_srt: a first line that is no integer counts as 0,
\* the text lines are cleaned and the empty ones dropped
parse_srt_legendas(text_) ==
    [kind |-> "list",
     cues |-> MapSeq(TimedBlocks(text_, "analise_legendas"), LAMBDA lines :
        Cue(StartOf(lines), EndOf(lines),
            SelectSeq(MapSeq(SubSeq(lines, 3, Len(lines)), clean_text),
                      LAMBDA l : l # <<>>),
            IF IsIntLiteral(lines[1]) THEN IntLiteral(lines[1]) ELSE 0))]

\* analise_legenda.parse_srt: int(lines[0]) is not guarded, the text lines
\* are kept as written
parse_srt_legenda(text_) ==
    LET timed == TimedBlocks(text_, "analise_legenda")
    IN  IF \E k \in 1..Len(timed) : ~IsIntLiteral(timed[k][1])
        THEN [kind |-> "ValueError"]
        ELSE [kind |-> "list",
              cues |-> MapSeq(timed, LAMBDA lines :
                 Cue(StartOf(lines), EndOf(lines), SubSeq(lines, 3, Len(lines)),
                     IntLiteral(lines[1])))]

MaxFileLines == 5

TimingLine ==
    <<"0", "0", ":", "0", "0", ":", "0", "1", ",", "0", "0", "0",
      " ", "-", "-", ">", " ",
      "0", "0", ":", "0", "0", ":", "0", "2", ",", "5", "0", "0">>

\* The physical lines the input files are written with
FileLines == { <<>>, <<"7">>, <<"a", "b", "c">>, TimingLine, <<"H", "i">> }

\* '\n'.join(lines)
RECURSIVE JoinLines(_, _)
JoinLines(lines, i) ==
    IF i > Len(lines) THEN <<>>
    ELSE IF i = Len(lines) THEN lines[i]
    ELSE lines[i] \o <<"\n">> \o JoinLines(lines, i + 1)

InitParser ==
    /\ pc = "file"
    /\ program \in Programs
    /\ \E n \in 0..MaxFileLines : \E f \in [1..n -> FileLines] :
           content = JoinLines(f, 1)
    /\ subtitles = None
    /\ locals = Pending /\ report = Pending
    /\ IdleCodec /\ IdleSanitizer

\* analyze_subtitle_file, line 117: subtitles = parse_srt(file_path)
ParseSrtLegendas ==
    /\ pc = "file" /\ program = "analise_legendas"
    /\ subtitles' = parse_srt_legendas(content).cues
    /\ pc' = "parsed"
    /\ UNCHANGED <<program, timestamp, td, formatted, text, cleaned, recleaned,
                   content, locals, report>>

\* main of analise_legenda.py: subtitles = parse_srt(file_path); a
\* ValueError ends the run
ParseSrtLegenda ==
    /\ pc = "file" /\ program = "analise_legenda"
    /\ LET r == parse_srt_legenda(content)
       IN  IF r.kind = "ValueError"
           THEN /\ pc' = "raised"
                /\ report' = [kind |-> "ValueError"]
                /\ UNCHANGED subtitles
           ELSE /\ pc' = "parsed"
                /\ subtitles' = r.cues
                /\ UNCHANGED report
    /\ UNCHANGED <<program, timestamp, td, formatted, text, cleaned, recleaned,
                   content, locals>>

NextParser ==
    \/ ParseSrtLegendas
    \/ ParseSrtLegenda
    \/ AnalyzeSubtitleFile
    \/ CalculateStatistics

SpecParser == InitParser /\ [][NextParser]_vars

\* The blocks with a valid timing line whose first line is no integer
NonNumericBlocks(text_, prog) ==
    LET timed == TimedBlocks(text_, prog)
    IN  {k \in 1..Len(timed) : ~IsIntLiteral(timed[k][1])}

\* C7: parsing a file in which some block has a valid timing line and a
\* first line that is no integer does not fail: the block yields a cue with
\* sequence number 0 and the other valid blocks are returned as well.
C7_NonNumericNumberParsesAsZero ==
    (pc # "file" /\ NonNumericBlocks(content, program) # {}) =>
        /\ pc # "raised"
        /\ Len(subtitles) = Len(TimedBlocks(content, program))
        /\ \A k \in NonNumericBlocks(content, program) : subtitles[k].line_number = 0

\* The blocks with at least 2 physical lines whose second line is a timing
\* line
BlocksWithTiming(text_) ==
    SelectSeq(BlocksOf(text_), LAMBDA lines : Len(lines) >= 2 /\ TimeMatch(lines[2]))

\* The sequence number a block declares, 0 when its first line is no integer
DeclaredNumber(lines) == IF IsIntLiteral(lines[1]) THEN IntLiteral(lines[1]) ELSE 0

\* C11: parse_srt returns one cue for each block with at least 2 lines and a
\* timing line as its second line (a block without text lines included) and
\* no other cue, in the order of the blocks, each with the times and the
\* sequence number its block declares.
C11_OneCuePerTimedBlock ==
    pc # "file" =>
        /\ pc # "raised"
        /\ LET blocks == BlocksWithTiming(content)
           IN  /\ Len(subtitles) = Len(blocks)
               /\ \A k \in 1..Len(blocks) :
                    /\ subtitles[k].line_number = DeclaredNumber(blocks[k])
                    /\ subtitles[k].start = StartOf(blocks[k])
                    /\ subtitles[k].end = EndOf(blocks[k])

\* C11 for the parser of analise_legendas.py alone
C11_LegendasOneCuePerTimedBlock ==
    program = "analise_legendas" => C11_OneCuePerTimedBlock

\* A file of integer-numbered blocks, one of them a timing line without text
C11_TextlessBlockParsed ==
    /\ pc = "parsed"
    /\ NonNumericBlocks(content, program) = {}
    /\ \E k \in 1..Len(BlocksWithTiming(content)) : Len(BlocksWithTiming(content)[k]) = 2

(***************************************************************************)
(* Reading rates and line-count buckets.                                   *)
(***************************************************************************)
\* The display time the script divides by: the merged time in
\* analise_legendas.py, the sum of the durations in analise_legenda.py
ComputedDisplayTime ==
    IF program = "analise_legendas" THEN locals.real_display_time
    ELSE report.total_display_time

\* The quotients of the report
ReportRatios ==
    IF program = "analise_legendas"
    THEN {report.words_per_second, report.display_percentage,
          report.words_per_line, report.chars_per_line, report.avg_duration}
    ELSE {report.reading_rate_words, report.reading_rate_chars,
          report.display_percentage, report.without_subtitles_percentage,
          report.avg_words_per_line, report.avg_chars_per_line,
          report.avg_duration}

\* The reading rates of the report: analise_legendas.py has words per second
\* only
ReadingRates ==
    IF program = "analise_legendas" THEN {report.words_per_second}
    ELSE {report.reading_rate_words, report.reading_rate_chars}

\* C12: whenever the display time of the analysed cues is 0 (the time the
\* script computed, or the measure of the union of the cue ranges), every
\* reading rate of the report is exactly 0 and no quotient of the report has
\* a zero divisor.
C12_ZeroDisplayZeroRates ==
    (pc = "done" /\ report.kind = "dict"
        /\ (ComputedDisplayTime = 0 \/ UnionMeasure(subtitles) = 0)) =>
        /\ \A r \in ReadingRates : r = Ratio(0, 1)
        /\ \A q \in ReportRatios : q.den # 0

\* Cues with words and characters to read, shown for no time at all
C12_Witness ==
    /\ Reported("analise_legenda")
    /\ report.total_display_time = 0
    /\ report.total_words > 0 /\ report.total_characters > 0
    /\ report.reading_rate_words = Ratio(0, 1)

\* C13: for every input line, the cleaned text holds no backslash
\* immediately followed by a letter, whatever follows the letters: a digit,
\* an underscore, punctuation, a space or the end of the line.
C13_NoBackslashLetterLeft ==
    pc \in {"cleaned", "recleaned"} =>
        ~\E i \in 1..(Len(cleaned) - 1) :
            cleaned[i] = "\\" /\ cleaned[i + 1] \in Letters

\* What the cleaned text is free of: a backslash and letters that end at a
\* word boundary (before punctuation, a space, a backslash or the end)
C13_NoEscapeBeforeBoundaryLeft ==
    pc \in {"cleaned", "recleaned"} =>
        ~\E i \in 1..Len(cleaned) : EscapeAt(cleaned, i)

\* A backslash sequence followed by a digit or an underscore went through
\* clean_text and is still in the cleaned text
C13_EscapeBeforeDigitKept ==
    /\ pc = "cleaned"
    /\ \E i \in 1..(Len(cleaned) - 2) :
         /\ cleaned[i] = "\\" /\ cleaned[i + 1] \in Letters
         /\ cleaned[i + 2] \in {"1", "_"}

\* The number of text lines of a cue that are non-empty after sanitization
NonEmptyCount(c) ==
    Cardinality({i \in 1..Len(c.text_lines) : clean_text(c.text_lines[i]) # <<>>})

\* The cues with exactly k such lines, and those with k or more
CuesWithExactly(k) ==
    Cardinality({i \in 1..Len(subtitles) : NonEmptyCount(subtitles[i]) = k})

CuesWithAtLeast(k) ==
    Cardinality({i \in 1..Len(subtitles) : NonEmptyCount(subtitles[i]) >= k})

\* The totals of the buckets of the report, in the order of the report:
\* single, double, triple+ in analise_legendas.py; single, double, triple,
\* quadruple+ in analise_legenda.py
BucketTotals ==
    IF program = "analise_legendas"
    THEN <<report.single_lines, report.double_lines, report.triple_plus_lines>>
    ELSE <<Len(report.single_lines), Len(report.double_lines),
           Len(report.triple_lines), Len(report.quadruple_lines)>>

\* Every bucket but the last holds the cues with exactly its number of
\* non-empty lines, the last the cues with that number or more, and the
\* totals add up to the number of cues with a non-empty line
BucketsCountCues ==
    LET n == Len(BucketTotals)
    IN  /\ \A k \in 1..(n - 1) : BucketTotals[k] = CuesWithExactly(k)
        /\ BucketTotals[n] = CuesWithAtLeast(n)
        /\ SumSeq(BucketTotals, 1) = CuesWithAtLeast(1)

\* C14 (as stated): every report has the four buckets 1, 2, 3 and
\* 4-or-more, each cue with k >= 1 lines that are non-empty after
\* sanitization counted in the bucket for k and in no other, the totals
\* adding up to the number of cues with a non-empty line.
C14_FourBuckets ==
    (pc = "done" /\ report.kind = "dict") =>
        Len(BucketTotals) = 4 /\ BucketsCountCues

\* C14 (amended): the report has the buckets 1, 2, 3 and 4-or-more in
\* analise_legenda.py and 1, 2 and 3-or-more in analise_legendas.py; each
\* cue with k >= 1 lines that are non-empty after sanitization is counted in
\* the one bucket that covers k, lines that sanitize to empty are not
\* counted, a cue without a non-empty line is in no bucket, and the totals
\* add up to the number of cues with a non-empty line.
C14_BucketsCoverCues ==
    (pc = "done" /\ report.kind = "dict") =>
        /\ Len(BucketTotals) = IF program = "analise_legenda" THEN 4 ELSE 3
        /\ BucketsCountCues

\* Four written lines of which one sanitizes to empty counted as three, next
\* to a cue in the last bucket
C14_Witness ==
    /\ Reported("analise_legenda")
    /\ report.triple_lines # <<>> /\ report.quadruple_lines # <<>>
    /\ \E i \in 1..Len(subtitles) :
         /\ Len(subtitles[i].text_lines) = 4
         /\ NonEmptyCount(subtitles[i]) = 3

(***************************************************************************)
(* The cue list across the analysis of analise_legendas.py.                *)
(***************************************************************************)
\* The pairs i, i + 1 of a list of start/end pairs with the first ending
\* after the second starts
AdjacentOverlaps(ranges) ==
    Cardinality({i \in 1..(Len(ranges) - 1) : ranges[i][2] > ranges[i + 1][1]})

\* The start/end pairs of the cues, in the order of the cue list
RangesOf(subs) == [i \in 1..Len(subs) |-> <<subs[i].start, subs[i].end>>]

\* C15: the analysis, which sorts the time ranges by start in place to
\* compute the true display time, leaves the parsed cue sequence unchanged
\* in content and order, and the overlap count it reports afterwards is the
\* count of the cues that overlap their neighbour in file order.
C15_MergeLeavesCuesInFileOrder ==
    [][(pc = "parsed" /\ program = "analise_legendas" /\ pc' = "done") =>
          /\ subtitles' = subtitles
          /\ report'.kind = "dict" =>
                report'.overlaps = AdjacentOverlaps(RangesOf(subtitles))]_vars

\* Cues out of start order were analysed: the merger's list was reordered,
\* and the neighbours in file order overlap where those in start order do
\* not
C15_Witness ==
    /\ Reported("analise_legendas")
    /\ locals.intervals # RangesOf(subtitles)
    /\ report.overlaps = AdjacentOverlaps(RangesOf(subtitles))
    /\ report.overlaps # AdjacentOverlaps(locals.intervals)

====
